---- MODULE Spec2Model ----
(***************************************************************************)
(* Hypertable expansion of timescaledb (src/plan_expand_hypertable.c):     *)
(* the time_bucket comparison rewrite, the walk over the query's join tree *)
(* that collects restrictions or a chunks_in() call, the resolution of the *)
(* chunk list and the expansion of the chunks into the planner's arrays.   *)
(***************************************************************************)
EXTENDS Integers, Sequences, FiniteSets, TLC

VARIABLES
    catalog,    \* which operators and casts the system catalog holds
    rw,         \* the rewrite taken alone: its input and its result
    env,        \* the settings and the hypertable properties get_chunk_oids reads
    parse,      \* the Query: join tree, quals of each node, range table
    plannerinfo, \* the PlannerInfo (root): relation arrays and append_rel_list
    rels,       \* fdw_private of the RelOptInfo of each range-table index
    ctx,        \* the CollectQualCtx of the running expansion
    call,       \* the locals of the running ts_plan_expand_hypertable_chunks
    pc          \* where the planner is

planvars == <<env, parse, plannerinfo, rels, ctx, call, pc>>

vars == <<catalog, rw, env, parse, plannerinfo, rels, ctx, call, pc>>

(***************************************************************************)
(* Bounds of the model.                                                    *)
(***************************************************************************)
\* int2 values are -(MaxInt+1) .. MaxInt, int4 values -(2*MaxInt+2) .. 2*MaxInt+1.
MaxInt == 2
\* time_bucket widths are 1 .. MaxWidth.
MaxWidth == 2
\* A query has up to MaxQuals quals in its join tree.
MaxQuals == 2
\* The array of a chunks_in call has up to MaxArray elements.
MaxArray == 2

(***************************************************************************)
(* Oids.  Type oids are PostgreSQL's; operator and function oids are       *)
(* numbered by the model so that the catalog lookups can decode them.      *)
(***************************************************************************)
InvalidOid == 0
INT2OID == 21
INT4OID == 23
DATEOID == 1082
TIMESTAMPOID == 1114
TIMESTAMPTZOID == 1184
INTERVALOID == 1186
INT4ARRAYOID == 1007
RECORDOID == 2249
BOOLOID == 16

BTLessStrategyNumber == 1
BTLessEqualStrategyNumber == 2
BTEqualStrategyNumber == 3
BTGreaterEqualStrategyNumber == 4
BTGreaterStrategyNumber == 5

\* One day of an interval in the model's time unit (one hour; the source
\* counts microseconds).
USECS_PER_DAY == 24

OidIsValid(oid) == oid # InvalidOid

TypeIdx(t) ==
    CASE t = INT2OID -> 1
      [] t = INT4OID -> 2
      [] t = TIMESTAMPTZOID -> 3
      [] t = INTERVALOID -> 4
      [] t = DATEOID -> 5
      [] t = TIMESTAMPOID -> 6
      [] OTHER -> 0

TypeOfIdx(i) ==
    CASE i = 1 -> INT2OID
      [] i = 2 -> INT4OID
      [] i = 3 -> TIMESTAMPTZOID
      [] i = 4 -> INTERVALOID
      [] i = 5 -> DATEOID
      [] i = 6 -> TIMESTAMPOID
      [] OTHER -> InvalidOid

\* Largest and smallest value of a type (two's complement, scaled by MaxInt):
\* a date counts days, a timestamp the model's time unit.
TypeMax(t) ==
    CASE t = INT2OID -> MaxInt
      [] t = INT4OID -> 2 * MaxInt + 1
      [] t = DATEOID -> 1
      [] OTHER -> USECS_PER_DAY + MaxInt
TypeMin(t) == 0 - TypeMax(t) - 1
TypeRange(t) == TypeMin(t) .. TypeMax(t)

(***************************************************************************)
(* Datums and expression nodes.                                            *)
(***************************************************************************)
NoInterval == [time |-> 0, day |-> 0, month |-> 0]

\* A Datum holds an integer (or timestamp), an Interval or an int4 array.
Int32GetDatum(v) == [int |-> v, interval |-> NoInterval, array |-> << >>]
IntervalPGetDatum(i) == [int |-> 0, interval |-> i, array |-> << >>]
ArrayGetDatum(a) == [int |-> 0, interval |-> NoInterval, array |-> a]
DatumGetInt32(d) == d.int
DatumGetIntervalP(d) == d.interval
DatumGetArrayTypeP(d) == d.array

Var(varno, vartype) == [tag |-> "Var", varno |-> varno, vartype |-> vartype]

Const(consttype, constvalue) ==
    [tag |-> "Const", consttype |-> consttype, consttypmod |-> -1,
     constcollid |-> InvalidOid, constvalue |-> constvalue]

FuncExpr(funcid, funcresulttype, args) ==
    [tag |-> "FuncExpr", funcid |-> funcid, funcresulttype |-> funcresulttype,
     args |-> args]

OpExpr(opno, opfuncid, opresulttype, args) ==
    [tag |-> "OpExpr", opno |-> opno, opfuncid |-> opfuncid,
     opresulttype |-> opresulttype, args |-> args]

IsA(node, tag) == node.tag = tag

exprType(node) ==
    CASE node.tag = "Var" -> node.vartype
      [] node.tag = "Const" -> node.consttype
      [] node.tag = "FuncExpr" -> node.funcresulttype
      [] node.tag = "OpExpr" -> node.opresulttype

(***************************************************************************)
(* The catalog.  Operator oid = 1000 + 100*kind + 10*left + right, with    *)
(* kind 1..5 the btree strategies, 6 the operator <> and 7 the operator +. *)
(* `catalog` says which entries exist: a lookup of a missing entry returns *)
(* InvalidOid.                                                             *)
(***************************************************************************)
OprOid(kind, l, r) == 1000 + 100 * kind + 10 * TypeIdx(l) + TypeIdx(r)
oprkind(opno) == (opno - 1000) \div 100
oprleft(opno) == TypeOfIdx((opno % 100) \div 10)
oprright(opno) == TypeOfIdx(opno % 10)
\* The function implementing an operator (pg_operator.oprcode).
oprcode(opno) == opno + 1000

TimeBucketOid(t) == 4000 + TypeIdx(t)
CastFuncOid(src, dst) == 3000 + 10 * TypeIdx(src) + TypeIdx(dst)
ChunksInOid == 5000
OtherFuncOid == 6000

get_func_name(funcid) ==
    CASE funcid \div 1000 = 4 -> "time_bucket"
      [] funcid \div 1000 = 3 -> "cast"
      [] funcid = ChunksInOid -> "chunks_in"
      [] OTHER -> "other"

Commute(kind) == IF kind \in 1 .. 5 THEN 6 - kind ELSE kind

get_commutator(opno) ==
    IF catalog.commutator
    THEN OprOid(Commute(oprkind(opno)), oprright(opno), oprleft(opno))
    ELSE InvalidOid

BtreeOpfamily(t) == IF t \in {INT2OID, INT4OID} THEN "integer_ops" ELSE "datetime_ops"

lookup_type_cache(type_id) == [type_id |-> type_id, btree_opf |-> BtreeOpfamily(type_id)]

get_op_opfamily_strategy(opno, opf) ==
    IF oprkind(opno) \in 1 .. 5 /\ BtreeOpfamily(oprleft(opno)) = opf
    THEN oprkind(opno)
    ELSE 0

PlusPairs ==
    {<<INT2OID, INT2OID>>, <<INT4OID, INT2OID>>, <<TIMESTAMPTZOID, INTERVALOID>>,
     <<DATEOID, INTERVALOID>>}

get_operator(oprname, l, r) ==
    IF oprname = "+" /\ catalog.plus /\ <<l, r>> \in PlusPairs
    THEN OprOid(7, l, r)
    ELSE InvalidOid

\* date + interval returns timestamp; the other + operators return the type
\* of their left operand.
get_op_rettype(opno) == IF oprleft(opno) = DATEOID THEN TIMESTAMPOID ELSE oprleft(opno)

get_cast_func(source, target) ==
    IF catalog.cast /\ <<source, target>> \in
                        {<<INT4OID, INT2OID>>, <<TIMESTAMPOID, TIMESTAMPTZOID>>}
    THEN CastFuncOid(source, target)
    ELSE InvalidOid

make_opclause(opno, opresulttype, leftop, rightop) ==
    OpExpr(opno, InvalidOid, opresulttype, <<leftop, rightop>>)

makeFuncExpr(funcid, rettype, args) == FuncExpr(funcid, rettype, args)

is_time_bucket_function(node) ==
    IsA(node, "FuncExpr") /\ get_func_name(node.funcid) = "time_bucket"

is_chunk_exclusion_func(node) ==
    IsA(node, "FuncExpr") /\ node.funcid = ChunksInOid

\* The range-table indexes of the Vars of an expression.
RECURSIVE pull_varnos(_)
pull_varnos(node) ==
    CASE node.tag = "Var" -> {node.varno}
      [] node.tag = "Const" -> {}
      [] OTHER -> UNION {pull_varnos(node.args[i]) : i \in 1 .. Len(node.args)}

(***************************************************************************)
(* Evaluation of an expression on a tuple t, which gives the column value  *)
(* of each relation (varno).  A value is [ok, v]: ok is FALSE where        *)
(* evaluation raises an error.                                             *)
(***************************************************************************)
Value(v) == [ok |-> TRUE, v |-> v]
EvalError == [ok |-> FALSE, v |-> 0]

\* The width of a bucket or the amount of an addition: an integer, or an
\* Interval without month component counted in the model's time unit.
WidthAmount(width) ==
    IF width.consttype = INTERVALOID
    THEN LET i == DatumGetIntervalP(width.constvalue)
         IN  IF i.month = 0 THEN Value(i.time + i.day * USECS_PER_DAY) ELSE EvalError
    ELSE Value(DatumGetInt32(width.constvalue))

\* time_bucket: the start of the bucket of width w that holds x.
bucket(type, w, x) ==
    IF w <= 0 \/ (x \div w) * w < TypeMin(type)
    THEN EvalError
    ELSE Value((x \div w) * w)

\* The operator +: an error when the result is out of the result type's
\* range.  date + interval first converts the date to a timestamp.
Plus(opno, a, b) ==
    LET l == IF oprleft(opno) = DATEOID THEN a * USECS_PER_DAY ELSE a
    IN  IF l + b \in TypeRange(get_op_rettype(opno)) THEN Value(l + b) ELSE EvalError

\* A cast function: an error when the value is out of the target's range
\* (timestamp to timestamptz in a session whose time zone is UTC).
CastTo(type, a) == IF a \in TypeRange(type) THEN Value(a) ELSE EvalError

RECURSIVE EvalExpr(_, _)
EvalExpr(e, t) ==
    CASE e.tag = "Var" -> Value(t[e.varno])
      [] e.tag = "Const" -> WidthAmount(e)
      [] e.tag = "FuncExpr" ->
            IF is_time_bucket_function(e)
            THEN LET w == EvalExpr(e.args[1], t)
                     x == EvalExpr(e.args[2], t)
                 IN  IF w.ok /\ x.ok THEN bucket(e.funcresulttype, w.v, x.v) ELSE EvalError
            ELSE LET x == EvalExpr(e.args[1], t)
                 IN  IF x.ok THEN CastTo(e.funcresulttype, x.v) ELSE EvalError
      [] e.tag = "OpExpr" ->
            LET a == EvalExpr(e.args[1], t)
                b == EvalExpr(e.args[2], t)
            IN  IF a.ok /\ b.ok THEN Plus(e.opno, a.v, b.v) ELSE EvalError

Compare(kind, a, b) ==
    CASE kind = BTLessStrategyNumber -> a < b
      [] kind = BTLessEqualStrategyNumber -> a <= b
      [] kind = BTEqualStrategyNumber -> a = b
      [] kind = BTGreaterEqualStrategyNumber -> a >= b
      [] kind = BTGreaterStrategyNumber -> a > b
      [] OTHER -> a # b

\* A comparison holds on a row when both sides evaluate and compare true.
Satisfies(op, t) ==
    LET a == EvalExpr(op.args[1], t)
        b == EvalExpr(op.args[2], t)
    IN  a.ok /\ b.ok /\ Compare(oprkind(op.opno), a.v, b.v)

\* Constant folding of value + width (or of its cast) at plan time.
estimate_expression_value(root, node) ==
    LET x == EvalExpr(node, << >>)
    IN  [err |-> ~x.ok,
         node |-> IF x.ok THEN Const(exprType(node), Int32GetDatum(x.v)) ELSE node]

(***************************************************************************)
(* transform_time_bucket_comparison.  Its result is [ret, arg, err]: the   *)
(* OpExpr returned, the caller's OpExpr as the call leaves it, and whether *)
(* an error was raised.                                                    *)
(***************************************************************************)
Result(ret, arg, err) == [ret |-> ret, arg |-> arg, err |-> err]

\* DatumGetIntervalP(width) of line 182 is applied to the Const node itself,
\* not to its constvalue: the Interval fields day and month are read at the
\* offsets of the node's consttypmod and constcollid.
IntervalOverConst(width) ==
    [time |-> width.consttype, day |-> width.consttypmod, month |-> width.constcollid]

\* merge_day_component without copyObject: the merge is written into the
\* width node of the input expression.
merge_day_component_inplace(width) ==
    LET interval == DatumGetIntervalP(width.constvalue)
        merged == [width EXCEPT !.constvalue = IntervalPGetDatum(
                        [interval EXCEPT !.time = interval.time + interval.day * USECS_PER_DAY,
                                         !.day = 0])]
    IN  [width |-> merged, orig |-> merged]

\* Lines 193-198: the day component is merged into the time component of a
\* copy of width; `orig` is the width node the input expression still holds.
merge_day_component(width) ==
    LET interval == DatumGetIntervalP(width.constvalue)
    IN  [width |-> [width EXCEPT !.constvalue = IntervalPGetDatum(
                        [interval EXCEPT !.time = interval.time + interval.day * USECS_PER_DAY,
                                         !.day = 0])],
         orig |-> width]

\* rewritten_copy that keeps the operator of the input when the time_bucket
\* call was on the right.
rewritten_copy_uncommuted(op, opno, switched, args) ==
    [ret |-> [op EXCEPT !.args = args], arg |-> op]

\* Lines 154-166 and 240-251: the copy of op with the new arguments and,
\* when the time_bucket call was on the right, the commuted operator.
rewritten_copy(op, opno, switched, args) ==
    [ret |-> [op EXCEPT !.args = args,
                        !.opno = IF switched THEN opno ELSE @,
                        !.opfuncid = IF switched THEN InvalidOid ELSE @],
     arg |-> op]

\* The caller's op with the width node of its time_bucket call replaced.
WithWidth(op, width) ==
    IF IsA(op.args[1], "FuncExpr")
    THEN [op EXCEPT !.args[1].args[1] = width]
    ELSE [op EXCEPT !.args[2].args[1] = width]

\* Lines 170-252: column < value + width.
transform_upper_bound(root, op, opno, switched, time_bucket, value, tce) ==
    LET width0 == time_bucket.args[1]
        subst_opno == get_operator("+", exprType(value), exprType(width0))
        merge == tce.type_id = TIMESTAMPTZOID /\ width0.consttype = INTERVALOID
                 /\ IntervalOverConst(width0).month = 0
                 /\ IntervalOverConst(width0).day # 0
        merged == merge_day_component(width0)
        width == IF merge THEN merged.width ELSE width0
        input == IF merge THEN WithWidth(op, merged.orig) ELSE op
        resulttype == get_op_rettype(subst_opno)
        plus == make_opclause(subst_opno, tce.type_id, value, width)
        cast_func == get_cast_func(resulttype, tce.type_id)
        casted == IF tce.type_id # resulttype
                  THEN makeFuncExpr(cast_func, tce.type_id, <<plus>>)
                  ELSE plus
        interval == DatumGetIntervalP(width.constvalue)
        fold == tce.type_id = TIMESTAMPTZOID /\ width.consttype = INTERVALOID
                /\ interval.day = 0 /\ interval.month = 0
        folded == estimate_expression_value(root, casted)
        subst == IF fold THEN folded.node ELSE casted
        copy == rewritten_copy(input, opno, switched, <<time_bucket.args[2], subst>>)
    IN  IF ~OidIsValid(subst_opno) THEN Result(op, op, FALSE)
        ELSE IF tce.type_id # resulttype /\ ~OidIsValid(cast_func)
             THEN Result(input, input, FALSE)
        ELSE IF fold /\ folded.err THEN Result(input, input, TRUE)
        ELSE Result(copy.ret, copy.arg, FALSE)

\* transform_lower_bound with the operands in the order of the input when
\* the time_bucket call was on the right: value > column.
transform_lower_bound_swapped(op, opno, switched, time_bucket, value) ==
    LET args == IF switched
                THEN <<value, time_bucket.args[2]>>
                ELSE <<time_bucket.args[2], value>>
        copy == rewritten_copy(op, opno, switched, args)
    IN  Result(copy.ret, copy.arg, FALSE)

\* transform_lower_bound that keeps the time_bucket call as left operand.
transform_lower_bound_keeps_call(op, opno, switched, time_bucket, value) ==
    LET copy == rewritten_copy(op, opno, switched, <<time_bucket, value>>)
    IN  Result(copy.ret, copy.arg, FALSE)

\* Lines 153-166: column > value.
transform_lower_bound(op, opno, switched, time_bucket, value) ==
    LET copy == rewritten_copy(op, opno, switched, <<time_bucket.args[2], value>>)
    IN  Result(copy.ret, copy.arg, FALSE)

transform_time_bucket_comparison(root, op) ==
    LET left == op.args[1]
        right == op.args[2]
        time_bucket == IF IsA(left, "FuncExpr") THEN left ELSE right
        value == IF IsA(right, "Const") THEN right ELSE left
        switched == IsA(right, "FuncExpr")
        opno == IF switched THEN get_commutator(op.opno) ELSE op.opno
        tce == lookup_type_cache(exprType(time_bucket))
        strategy == get_op_opfamily_strategy(opno, tce.btree_opf)
    IN  IF switched /\ ~OidIsValid(opno) THEN Result(op, op, FALSE)
        ELSE IF strategy \in {BTGreaterStrategyNumber, BTGreaterEqualStrategyNumber}
             THEN transform_lower_bound(op, opno, switched, time_bucket, value)
        ELSE IF strategy \in {BTLessStrategyNumber, BTLessEqualStrategyNumber}
             THEN transform_upper_bound(root, op, opno, switched, time_bucket, value, tce)
        ELSE Result(op, op, FALSE)

\* The shape process_quals tests before it calls the transformation
\* (lines 305-316).
is_time_bucket_comparison(qual) ==
    /\ IsA(qual, "OpExpr")
    /\ Len(qual.args) = 2
    /\ \/ /\ IsA(qual.args[1], "FuncExpr")
          /\ IsA(qual.args[2], "Const")
          /\ Len(qual.args[1].args) = 2
          /\ is_time_bucket_function(qual.args[1])
       \/ /\ IsA(qual.args[1], "Const")
          /\ IsA(qual.args[2], "FuncExpr")
          /\ Len(qual.args[2].args) = 2
          /\ is_time_bucket_function(qual.args[2])

(***************************************************************************)
(* The inputs of the rewrite: comparisons of a 2-argument time_bucket call *)
(* with a constant, on either side, for an int2 and a timestamptz column.  *)
(***************************************************************************)
ColumnTypes == {INT2OID, TIMESTAMPTZOID}

Intervals ==
    {[time |-> t, day |-> d, month |-> m] : t \in 0 .. MaxWidth, d \in 0 .. 1, m \in 0 .. 1}
        \ {NoInterval}

Widths(t) ==
    IF t = INT2OID
    THEN {Const(INT2OID, Int32GetDatum(w)) : w \in 1 .. MaxWidth}
    ELSE {Const(INTERVALOID, IntervalPGetDatum(i)) : i \in Intervals}

ValueTypes(t) == IF t = INT2OID THEN {INT2OID, INT4OID} ELSE {TIMESTAMPTZOID, DATEOID}

\* The constants compared with: every integer, every date, and the
\* timestamps at the origin and at the end of the range.
InputValues(vt) ==
    IF vt = TIMESTAMPTZOID
    THEN {0, 1, TypeMax(TIMESTAMPTZOID)}
    ELSE TypeRange(vt)

Values(t) ==
    UNION {{Const(vt, Int32GetDatum(v)) : v \in InputValues(vt)} : vt \in ValueTypes(t)}

TimeBucket(t, width, column) == FuncExpr(TimeBucketOid(t), t, <<width, column>>)

InnerWidth(t) ==
    IF t = INT2OID
    THEN Const(INT2OID, Int32GetDatum(1))
    ELSE Const(INTERVALOID, IntervalPGetDatum([time |-> 1, day |-> 0, month |-> 0]))

Columns(t) == {Var(1, t), TimeBucket(t, InnerWidth(t), Var(1, t))}

Comparison(kind, bucket_call, value, onleft, cached) ==
    LET l == IF onleft THEN bucket_call ELSE value
        r == IF onleft THEN value ELSE bucket_call
        opno == OprOid(kind, exprType(l), exprType(r))
    IN  OpExpr(opno, IF cached THEN oprcode(opno) ELSE InvalidOid, BOOLOID, <<l, r>>)

BucketComparisons ==
    UNION {{Comparison(kind, TimeBucket(t, w, col), v, onleft, cached) :
                kind \in 1 .. 6, w \in Widths(t), col \in Columns(t), v \in Values(t),
                onleft \in BOOLEAN, cached \in BOOLEAN} : t \in ColumnTypes}

Catalogs == [commutator : BOOLEAN, plus : BOOLEAN, cast : BOOLEAN]

FullCatalog == [commutator |-> TRUE, plus |-> TRUE, cast |-> TRUE]

RwIdle == [pc |-> "idle"]

(***************************************************************************)
(* Hypertables and chunks.  Hypertable h has the main table 10*h and       *)
(* NumChunks chunks; chunk k holds the rows whose column value lies in the *)
(* k-th range of two values.  Hypertable 1 has the chunk ids 1.., and      *)
(* hypertable 2 the chunk ids 7..; no chunk has the id 0.                  *)
(***************************************************************************)
NumChunks == MaxInt + 1

HypertableIds == {1, 2}

Hypertable(h) ==
    [fd |-> [id |-> h, table_name |-> IF h = 1 THEN "ht1" ELSE "ht2"],
     main_table_relid |-> 10 * h]

FirstChunkId(h) == IF h = 1 THEN 1 ELSE 7

ChunkIds(h) == FirstChunkId(h) .. FirstChunkId(h) + NumChunks - 1

NoChunk == [found |-> FALSE, fd |-> [id |-> 0, hypertable_id |-> 0], table_id |-> InvalidOid]

ts_chunk_get_by_id(chunk_id) ==
    IF \E h \in HypertableIds : chunk_id \in ChunkIds(h)
    THEN [found |-> TRUE,
          fd |-> [id |-> chunk_id,
                  hypertable_id |-> CHOOSE h \in HypertableIds : chunk_id \in ChunkIds(h)],
          table_id |-> 100 + chunk_id]
    ELSE NoChunk

\* The column values chunk `chunk_id` holds.
ChunkRange(chunk_id) ==
    LET h == ts_chunk_get_by_id(chunk_id).fd.hypertable_id
        k == chunk_id - FirstChunkId(h)
    IN  TypeMin(INT2OID) + 2 * k .. TypeMin(INT2OID) + 2 * k + 1

\* The chunk tables of a hypertable, by ascending oid.
find_inheritance_children(parent_oid) ==
    LET h == parent_oid \div 10
    IN  [k \in 1 .. NumChunks |-> 100 + FirstChunkId(h) + k - 1]

(***************************************************************************)
(* Queries.  The join tree is the sequence of its FromExpr and JoinExpr    *)
(* nodes in the order the walker meets them; a child is a range-table      *)
(* reference (rt) or another node (node).  Both range-table entries are    *)
(* hypertables: entry i is hypertable i.                                   *)
(***************************************************************************)
NULL == [tag |-> "NULL"]

RtRef(i) == [rt |-> i, node |-> 0]
NodeRef(j) == [rt |-> 0, node |-> j]
FromExpr(fromlist) == [kind |-> "FromExpr", jointype |-> "JOIN_INNER", children |-> fromlist]
JoinExpr(jointype, larg, rarg) ==
    [kind |-> "JoinExpr", jointype |-> jointype, children |-> <<larg, rarg>>]

JoinTypes == {"JOIN_INNER", "JOIN_LEFT", "JOIN_FULL", "JOIN_RIGHT"}

SingleTree == <<FromExpr(<<RtRef(1)>>)>>
CommaTree == <<FromExpr(<<RtRef(1), RtRef(2)>>)>>
JoinTree(jt, l, r) == <<FromExpr(<<NodeRef(2)>>), JoinExpr(jt, RtRef(l), RtRef(r))>>
NestedTree(jt) ==
    <<FromExpr(<<NodeRef(2)>>), JoinExpr(jt, NodeRef(3), RtRef(2)), FromExpr(<<RtRef(1)>>)>>

JoinTrees ==
    {SingleTree, CommaTree}
        \cup {JoinTree(jt, 1, 2) : jt \in JoinTypes}
        \cup {JoinTree(jt, 2, 1) : jt \in JoinTypes}
        \cup {NestedTree(jt) : jt \in {"JOIN_INNER", "JOIN_LEFT"}}

\* The range-table indexes a tree refers to.
TreeRels(nodes) ==
    UNION {{nodes[n].children[i].rt : i \in 1 .. Len(nodes[n].children)} :
              n \in 1 .. Len(nodes)}
        \ {0}

\* The range-table indexes in the scope of a node or of a reference.
RECURSIVE RelsUnder(_, _)
RelsUnder(nodes, ref) ==
    IF ref.rt # 0 THEN {ref.rt}
    ELSE UNION {RelsUnder(nodes, nodes[ref.node].children[i]) :
                   i \in 1 .. Len(nodes[ref.node].children)}

Int2Const(v) == Const(INT2OID, Int32GetDatum(v))
Column(varno) == Var(varno, INT2OID)
Compare2(kind, l, r) ==
    LET opno == OprOid(kind, exprType(l), exprType(r))
    IN  OpExpr(opno, oprcode(opno), BOOLOID, <<l, r>>)

ChunksIn(record, chunks) == FuncExpr(ChunksInOid, BOOLOID, <<record, chunks>>)
WholeRow(varno) == Var(varno, RECORDOID)
Int4Array(elems) == Const(INT4ARRAYOID, ArrayGetDatum(elems))
Elem(chunk_id) == [isnull |-> FALSE, value |-> Int32GetDatum(chunk_id)]
NullElem == [isnull |-> TRUE, value |-> Int32GetDatum(0)]

\* t1.c > 0, time_bucket(2, t1.c) < 0, t2.c > 0, t1.c = t2.c and 0 = 0.
PlainQuals ==
    {Compare2(BTGreaterStrategyNumber, Column(1), Int2Const(0)),
     Compare2(BTLessStrategyNumber,
              TimeBucket(INT2OID, Int2Const(2), Column(1)), Int2Const(0)),
     Compare2(BTGreaterStrategyNumber, Column(2), Int2Const(0)),
     Compare2(BTEqualStrategyNumber, Column(1), Column(2)),
     Compare2(BTEqualStrategyNumber, Int2Const(0), Int2Const(0))}

\* chunks_in(t1, ARRAY[...]) of every array of chunk ids 1, 2 (of hypertable
\* 1), 7 (of hypertable 2), 0 (of no hypertable) and NULL.
ArrayElems == {Elem(1), Elem(2), Elem(7), Elem(0), NullElem}

Arrays == UNION {[1 .. n -> ArrayElems] : n \in 0 .. MaxArray}

ValidSelector == ChunksIn(WholeRow(1), Int4Array(<<Elem(1)>>))

\* The well-formed calls, a call whose first argument is no Var and a call
\* whose second argument is no Const.
Selectors ==
    {ChunksIn(WholeRow(1), Int4Array(a)) : a \in Arrays}
        \cup {ChunksIn(FuncExpr(OtherFuncOid, RECORDOID, <<WholeRow(1)>>),
                       Int4Array(<<Elem(1)>>)),
              ChunksIn(WholeRow(1), FuncExpr(OtherFuncOid, INT4ARRAYOID, << >>))}

\* The quals of each node: k quals of V handed out to the nodes in order.
Slice(flat, nodeOf, n) ==
    LET idx == {i \in 1 .. Len(flat) : nodeOf[i] = n}
        lo == IF idx = {} THEN 0 ELSE CHOOSE i \in idx : \A j \in idx : i <= j
    IN  [j \in 1 .. Cardinality(idx) |-> flat[lo + j - 1]]

QualPlacements(nnodes, V, maxquals) ==
    UNION {{[n \in 1 .. nnodes |-> Slice(flat, nodeOf, n)] :
                flat \in [1 .. k -> V],
                nodeOf \in {f \in [1 .. k -> 1 .. nnodes] :
                               \A i \in 1 .. k, j \in 1 .. k : i <= j => f[i] <= f[j]}} :
              k \in 0 .. maxquals}

\* A list with x inserted at position i.
InsertAt(list, i, x) ==
    [j \in 1 .. Len(list) + 1 |->
        IF j < i THEN list[j] ELSE IF j = i THEN x ELSE list[j - 1]]

Envs ==
    [ts_guc_disable_optimizations : BOOLEAN, ts_guc_enable_ordered_append : BOOLEAN,
     num_dimensions : {1, 2}, sortClause : BOOLEAN, limit_tuples : {-1, 10},
     order_compatible : BOOLEAN, reverse : BOOLEAN, fdw_private : BOOLEAN]

\* No ORDER BY and no LIMIT; the relations carry a TimescaleDBPrivate.
PlainEnv ==
    [ts_guc_disable_optimizations |-> FALSE, ts_guc_enable_ordered_append |-> TRUE,
     num_dimensions |-> 1, sortClause |-> FALSE, limit_tuples |-> -1,
     order_compatible |-> FALSE, reverse |-> FALSE, fdw_private |-> TRUE]

Query(nodes, quals, e) == [jointree |-> nodes, quals |-> quals, env |-> e]

\* The quals of a node refer to the relations in the scope of the node.
WellScoped(nodes, quals) ==
    \A n \in 1 .. Len(nodes) : \A i \in 1 .. Len(quals[n]) :
        pull_varnos(quals[n][i]) \subseteq RelsUnder(nodes, NodeRef(n))

\* Every tree with up to MaxQuals quals (a valid chunks_in call among them).
JoinQueries ==
    UNION {{Query(nodes, quals, PlainEnv) :
                quals \in {qs \in QualPlacements(Len(nodes),
                                                 PlainQuals \cup {ValidSelector}, MaxQuals) :
                              WellScoped(nodes, qs)}} :
              nodes \in JoinTrees}

\* One table with any chunks_in call before, between or after other quals.
SelectorQueries ==
    UNION {{Query(SingleTree, <<InsertAt(others[1], i, sel)>>, PlainEnv) :
                i \in 1 .. Len(others[1]) + 1, sel \in Selectors} :
              others \in QualPlacements(1, {q \in PlainQuals : pull_varnos(q) = {1}},
                                        MaxQuals - 1)}

\* One table under every setting that ordered append depends on.
OrderQueries ==
    {Query(SingleTree, <<quals>>, e) :
        quals \in {<< >>, <<ValidSelector>>}
                    \cup {<<q>> : q \in {q \in PlainQuals : pull_varnos(q) = {1}}},
        e \in Envs}

Queries == JoinQueries \cup SelectorQueries \cup OrderQueries

(***************************************************************************)
(* The planning structures.  parse is the Query (the join tree, the quals  *)
(* of each of its nodes, the range table), plannerinfo is root, rels the   *)
(* RelOptInfo of each range-table entry, env the settings and the facts    *)
(* about the query that ordered append depends on.  ctx is the             *)
(* CollectQualCtx and call the locals of ts_plan_expand_hypertable_chunks: *)
(* node and lc are the walker's position, before is the state the call     *)
(* started in.                                                             *)
(***************************************************************************)
NoError == [msg |-> "", chunk_id |-> 0]
Error(msg, chunk_id) == [msg |-> msg, chunk_id |-> chunk_id]

RangeTblEntry(relid, inh) == [relid |-> relid, inh |-> inh, requiredPerms |-> 1]

\* fdw_private is a zeroed TimescaleDBPrivate, or NULL.
RelOptInfo(relid, private) ==
    [relid |-> relid,
     fdw_private |-> IF private THEN [appends_ordered |-> FALSE] ELSE NULL,
     nparts |-> 0]

IdleParse == [jointree |-> << >>, quals |-> << >>, rtable |-> << >>]
IdleRoot == [simple_rel_array_size |-> 0, append_rel_list |-> << >>]
IdleCtx == [rel |-> 0, restrictions |-> << >>, chunk_exclusion_func |-> NULL]
IdleBefore == [quals |-> << >>, rtable |-> << >>, plannerinfo |-> IdleRoot]
IdleCall ==
    [rti |-> 0, parent_oid |-> InvalidOid, node |-> 0, lc |-> 0, inh_oids |-> << >>,
     l |-> 0, appinfos |-> << >>, error |-> NoError, before |-> IdleBefore]

PlanIdle ==
    /\ env = PlainEnv
    /\ parse = IdleParse
    /\ plannerinfo = IdleRoot
    /\ rels = << >>
    /\ ctx = IdleCtx
    /\ call = IdleCall
    /\ pc = "idle"

(***************************************************************************)
(* The rewrite alone: one call of transform_time_bucket_comparison per     *)
(* step, on any input and under any catalog.                               *)
(***************************************************************************)
InitRewrite ==
    /\ catalog \in Catalogs
    /\ rw = RwIdle
    /\ PlanIdle

RwCall ==
    /\ rw.pc = "idle"
    /\ \E op \in BucketComparisons :
          rw' = [pc |-> "returned", op |-> op,
                 res |-> transform_time_bucket_comparison("root", op)]
    /\ UNCHANGED <<catalog, planvars>>

RwReturn ==
    /\ rw.pc = "returned"
    /\ rw' = RwIdle
    /\ UNCHANGED <<catalog, planvars>>

NextRewrite == RwCall \/ RwReturn

SpecRewrite == InitRewrite /\ [][NextRewrite]_vars

(***************************************************************************)
(* The qual walk: process_quals and collect_quals_walker.                  *)
(***************************************************************************)
make_restrictinfo(clause, required_relids) ==
    [clause |-> clause, is_pushed_down |-> TRUE,
     clause_relids |-> pull_varnos(clause), required_relids |-> required_relids]

\* The test of line 285, without the test of the number of relations.
skip_qual_any_member(relids, c) == c.rel \notin relids

\* "skip expressions not for current rel" (line 285).
skip_qual(relids, c) == Cardinality(relids) # 1 \/ c.rel \notin relids

\* Lines 299-300, without the reset of the restrictions.
chunk_exclusion_found_keeps_restrictions(c, func_expr) ==
    [c EXCEPT !.chunk_exclusion_func = func_expr]

\* Lines 299-300.
chunk_exclusion_found(c, func_expr) ==
    [c EXCEPT !.chunk_exclusion_func = func_expr, !.restrictions = << >>]

list_delete_cell(list, i) ==
    [j \in 1 .. Len(list) - 1 |-> IF j < i THEN list[j] ELSE list[j + 1]]

\* One iteration of the loop of process_quals, on cell lc of the quals of
\* node n.  The result is the context, the quals of the node, whether
\* process_quals returned, and the error raised.
process_qual(c, quals, lc) ==
    LET qual == quals[lc]
        relids == pull_varnos(qual)
        res == transform_time_bucket_comparison("root", qual)
        clause == IF is_time_bucket_comparison(qual) THEN res.ret ELSE qual
        same == [ctx |-> c, quals |-> quals, returned |-> FALSE, error |-> NoError]
    IN  IF skip_qual(relids, c) THEN same
        ELSE IF is_chunk_exclusion_func(qual)
        THEN IF ~IsA(qual.args[1], "Var")
             THEN [same EXCEPT
                     !.error = Error("first parameter for chunks_in function needs to be record", 0)]
             ELSE [same EXCEPT !.ctx = chunk_exclusion_found(c, qual),
                               !.quals = list_delete_cell(quals, lc),
                               !.returned = TRUE]
        ELSE IF is_time_bucket_comparison(qual) /\ res.err
        THEN [same EXCEPT !.error = Error("estimate_expression_value", 0)]
        ELSE [same EXCEPT
                !.ctx = [c EXCEPT !.restrictions =
                            Append(c.restrictions, make_restrictinfo(clause, relids))],
                !.quals = IF is_time_bucket_comparison(qual)
                          THEN [quals EXCEPT ![lc] = res.arg]
                          ELSE quals]

(***************************************************************************)
(* The chunks of a hypertable that its restrictions leave.  A restriction  *)
(* counts when it compares the partitioning column to an expression that   *)
(* folds to a constant; a chunk stays when some value of its range         *)
(* satisfies every restriction that counts.                                *)
(***************************************************************************)
RowOf(v) == [varno \in 1 .. 2 |-> v]

ts_hypertable_restrict_info_add(restrictions) ==
    LET counts(ri) ==
            /\ IsA(ri.clause, "OpExpr")
            /\ Len(ri.clause.args) = 2
            /\ IsA(ri.clause.args[1], "Var")
            /\ ri.clause.args[1].vartype = INT2OID
            /\ pull_varnos(ri.clause.args[2]) = {}
            /\ oprkind(ri.clause.opno) \in 1 .. 5
            /\ EvalExpr(ri.clause.args[2], RowOf(0)).ok
    IN  SelectSeq(restrictions, counts)

ts_hypertable_restrict_info_has_restrictions(hri) == Len(hri) > 0

ChunkStays(hri, chunk_id) ==
    \E v \in ChunkRange(chunk_id) :
        \A i \in 1 .. Len(hri) : Satisfies(hri[i].clause, RowOf(v))

ts_hypertable_restrict_info_get_chunk_oids(hri, ht) ==
    LET stays(oid) == ChunkStays(hri, oid - 100)
    IN  SelectSeq(find_inheritance_children(ht.main_table_relid), stays)

Reverse(list) == [i \in 1 .. Len(list) |-> list[Len(list) + 1 - i]]

ts_hypertable_restrict_info_get_chunk_oids_ordered(hri, ht, reverse) ==
    IF reverse
    THEN Reverse(ts_hypertable_restrict_info_get_chunk_oids(hri, ht))
    ELSE ts_hypertable_restrict_info_get_chunk_oids(hri, ht)

\* Whether the ORDER BY of the query is on the partitioning column, and in
\* which direction.
ts_ordered_append_should_optimize(e) == [result |-> e.order_compatible, reverse |-> e.reverse]

\* find_children_oids, with the parent table among the children.
find_children_oids_with_parent(hri, ht) ==
    IF ~ts_hypertable_restrict_info_has_restrictions(hri)
    THEN <<ht.main_table_relid>> \o find_inheritance_children(ht.main_table_relid)
    ELSE ts_hypertable_restrict_info_get_chunk_oids(hri, ht)

find_children_oids(hri, ht) ==
    IF ~ts_hypertable_restrict_info_has_restrictions(hri)
    THEN find_inheritance_children(ht.main_table_relid)
    ELSE ts_hypertable_restrict_info_get_chunk_oids(hri, ht)

\* should_order_append without the test of the LIMIT.
should_order_append_without_limit(e) ==
    IF e.ts_guc_disable_optimizations \/ ~e.ts_guc_enable_ordered_append
    THEN [result |-> FALSE, reverse |-> FALSE]
    ELSE IF e.num_dimensions # 1 \/ ~e.sortClause
    THEN [result |-> FALSE, reverse |-> FALSE]
    ELSE ts_ordered_append_should_optimize(e)

should_order_append(e) ==
    IF e.ts_guc_disable_optimizations \/ ~e.ts_guc_enable_ordered_append
    THEN [result |-> FALSE, reverse |-> FALSE]
    ELSE IF e.num_dimensions # 1 \/ ~e.sortClause \/ e.limit_tuples = -1
    THEN [result |-> FALSE, reverse |-> FALSE]
    ELSE ts_ordered_append_should_optimize(e)

\* Lines 489-490.
set_appends_ordered(rel) ==
    IF rel.fdw_private # NULL
    THEN [rel EXCEPT !.fdw_private.appends_ordered = TRUE]
    ELSE rel

\* The relation is flagged as order-preserving.
appends_ordered(rel) == rel.fdw_private # NULL /\ rel.fdw_private.appends_ordered

Resolved(oids, ordered, error) == [oids |-> oids, ordered |-> ordered, error |-> error]

\* The loop of get_explicit_chunk_oids from element i on.
RECURSIVE array_iterate(_, _, _, _)
array_iterate(array, ht, i, chunk_oids) ==
    IF i > Len(array) THEN Resolved(chunk_oids, FALSE, NoError)
    ELSE LET chunk_id == DatumGetInt32(array[i].value)
             chunk == ts_chunk_get_by_id(chunk_id)
         IN  IF array[i].isnull
             THEN Resolved(<< >>, FALSE, Error("chunk id can't be NULL", 0))
             ELSE IF ~chunk.found
             THEN Resolved(<< >>, FALSE, Error("chunk id %d not found", chunk_id))
             ELSE IF chunk.fd.hypertable_id # ht.fd.id
             THEN Resolved(<< >>, FALSE,
                           Error("chunk id %d does not belong to hypertable \"%s\"", chunk_id))
             ELSE array_iterate(array, ht, i + 1, Append(chunk_oids, chunk.table_id))

\* The loop, leaving out the elements that are not chunks of the hypertable.
RECURSIVE array_iterate_valid(_, _, _, _)
array_iterate_valid(array, ht, i, chunk_oids) ==
    IF i > Len(array) THEN Resolved(chunk_oids, FALSE, NoError)
    ELSE LET chunk == ts_chunk_get_by_id(DatumGetInt32(array[i].value))
         IN  IF array[i].isnull \/ ~chunk.found \/ chunk.fd.hypertable_id # ht.fd.id
             THEN array_iterate_valid(array, ht, i + 1, chunk_oids)
             ELSE array_iterate_valid(array, ht, i + 1, Append(chunk_oids, chunk.table_id))

get_explicit_chunk_oids_skipping(c, ht) ==
    LET expr == c.chunk_exclusion_func.args[2]
    IN  IF ~IsA(expr, "Const")
        THEN Resolved(<< >>, FALSE,
                      Error("second argument to chunk_in should contain only integer consts", 0))
        ELSE array_iterate_valid(DatumGetArrayTypeP(expr.constvalue), ht, 1, << >>)

get_explicit_chunk_oids(c, ht) ==
    LET expr == c.chunk_exclusion_func.args[2]
    IN  IF ~IsA(expr, "Const")
        THEN Resolved(<< >>, FALSE,
                      Error("second argument to chunk_in should contain only integer consts", 0))
        ELSE array_iterate(DatumGetArrayTypeP(expr.constvalue), ht, 1, << >>)

get_chunk_oids(c, e, ht) ==
    IF c.chunk_exclusion_func = NULL
    THEN LET hri == ts_hypertable_restrict_info_add(c.restrictions)
             order == should_order_append(e)
         IN  IF order.result
             THEN Resolved(ts_hypertable_restrict_info_get_chunk_oids_ordered(
                               hri, ht, order.reverse), TRUE, NoError)
             ELSE Resolved(find_children_oids(hri, ht), FALSE, NoError)
    ELSE get_explicit_chunk_oids(c, ht)

(***************************************************************************)
(* Planning.  The planner begins a query, calls                            *)
(* ts_plan_expand_hypertable_chunks once for each hypertable of the range  *)
(* table that is not expanded yet (rte->inh is false until the call sets   *)
(* it), and ends; an error ends the planning of the query.                 *)
(***************************************************************************)
Init ==
    /\ catalog = FullCatalog
    /\ rw = RwIdle
    /\ PlanIdle

Begin ==
    /\ pc = "idle"
    /\ \E q \in Queries :
          LET nrels == Cardinality(TreeRels(q.jointree))
          IN  /\ env' = q.env
              /\ parse' = [jointree |-> q.jointree, quals |-> q.quals,
                           rtable |-> [i \in 1 .. nrels |->
                                          RangeTblEntry(Hypertable(i).main_table_relid, FALSE)]]
              /\ plannerinfo' = [simple_rel_array_size |-> nrels + 1,
                                 append_rel_list |-> << >>]
              /\ rels' = [i \in 1 .. nrels |-> RelOptInfo(i, q.env.fdw_private)]
    /\ pc' = "planning"
    /\ UNCHANGED <<catalog, rw, ctx, call>>

\* Lines 615-645, up to the call of collect_quals_walker on the jointree.
Expand ==
    /\ pc = "planning"
    /\ \E rti \in DOMAIN rels :
          /\ ~parse.rtable[rti].inh
          /\ parse' = [parse EXCEPT !.rtable[rti].inh = TRUE]
          /\ ctx' = [rel |-> rti, restrictions |-> << >>, chunk_exclusion_func |-> NULL]
          /\ call' = [IdleCall EXCEPT
                         !.rti = rti, !.parent_oid = parse.rtable[rti].relid,
                         !.node = 1, !.lc = 1,
                         !.before = [quals |-> parse.quals, rtable |-> parse'.rtable,
                                     plannerinfo |-> plannerinfo]]
    /\ pc' = "walk"
    /\ UNCHANGED <<catalog, rw, env, plannerinfo, rels>>

\* One iteration of the loop of process_quals (lines 276-335).
ProcessQual ==
    /\ pc = "walk"
    /\ call.lc <= Len(parse.quals[call.node])
    /\ LET step == process_qual(ctx, parse.quals[call.node], call.lc)
       IN  /\ ctx' = step.ctx
           /\ parse' = [parse EXCEPT !.quals[call.node] = step.quals]
           /\ call' = [call EXCEPT !.lc = IF step.returned THEN @ ELSE @ + 1,
                                   !.error = step.error]
           /\ pc' = IF step.error # NoError THEN "error"
                    ELSE IF step.returned THEN "resolve"
                    ELSE "walk"
    /\ UNCHANGED <<catalog, rw, env, plannerinfo, rels>>

\* process_quals returns at the end of the list (line 336), and the walker
\* goes on to the next node of the tree, if any (lines 356-360).
WalkNode ==
    /\ pc = "walk"
    /\ call.lc > Len(parse.quals[call.node])
    /\ IF call.node < Len(parse.jointree)
       THEN /\ call' = [call EXCEPT !.node = @ + 1, !.lc = 1]
            /\ pc' = "walk"
       ELSE /\ call' = call
            /\ pc' = "resolve"
    /\ UNCHANGED <<catalog, rw, env, parse, plannerinfo, rels, ctx>>

\* inh_oids = get_chunk_oids(&ctx, root, rel, ht) (line 647).
Resolve ==
    /\ pc = "resolve"
    /\ LET res == get_chunk_oids(ctx, env, Hypertable(call.rti))
       IN  /\ call' = [call EXCEPT !.inh_oids = res.oids, !.error = res.error]
           /\ rels' = [rels EXCEPT ![call.rti] =
                                    IF res.ordered THEN set_appends_ordered(@) ELSE @]
           /\ pc' = IF res.error # NoError THEN "error" ELSE "grow"
    /\ UNCHANGED <<catalog, rw, env, parse, plannerinfo, ctx>>

\* Lines 659-663 without the growth of the relation arrays.
GrowKeepsSize ==
    /\ pc = "grow"
    /\ rels' = [rels EXCEPT ![call.rti].nparts = Len(call.inh_oids)]
    /\ call' = [call EXCEPT !.l = 1]
    /\ pc' = "append"
    /\ UNCHANGED <<catalog, rw, env, parse, plannerinfo, ctx>>

\* Lines 653-663: the relation arrays grow and the partition info is built.
Grow ==
    /\ pc = "grow"
    /\ plannerinfo' = [plannerinfo EXCEPT
                          !.simple_rel_array_size = @ + Len(call.inh_oids)]
    /\ rels' = [rels EXCEPT ![call.rti].nparts = Len(call.inh_oids)]
    /\ call' = [call EXCEPT !.l = 1]
    /\ pc' = "append"
    /\ UNCHANGED <<catalog, rw, env, parse, ctx>>

\* One iteration of the loop over inh_oids (lines 666-727).
AppendChild ==
    /\ pc = "append"
    /\ call.l <= Len(call.inh_oids)
    /\ LET child_oid == call.inh_oids[call.l]
           childrte == [parse.rtable[call.rti] EXCEPT
                           !.relid = child_oid, !.inh = FALSE, !.requiredPerms = 0]
           child_rtindex == Len(parse.rtable) + 1
           appinfo == [parent_relid |-> call.rti, child_relid |-> child_rtindex,
                       parent_reloid |-> call.parent_oid]
       IN  /\ parse' = [parse EXCEPT !.rtable = Append(@, childrte)]
           /\ call' = [call EXCEPT !.appinfos = Append(@, appinfo), !.l = @ + 1]
    /\ UNCHANGED <<catalog, rw, env, plannerinfo, rels, ctx, pc>>

\* Lines 729-739: the append entries join append_rel_list and the call
\* returns.
Concat ==
    /\ pc = "append"
    /\ call.l > Len(call.inh_oids)
    /\ plannerinfo' = [plannerinfo EXCEPT !.append_rel_list = @ \o call.appinfos]
    /\ ctx' = IdleCtx
    /\ call' = IdleCall
    /\ pc' = "planning"
    /\ UNCHANGED <<catalog, rw, env, parse, rels>>

EndPlanning ==
    /\ pc = "planning"
    /\ \A rti \in DOMAIN rels : parse.rtable[rti].inh
    /\ env' = PlainEnv
    /\ parse' = IdleParse
    /\ plannerinfo' = IdleRoot
    /\ rels' = << >>
    /\ pc' = "idle"
    /\ UNCHANGED <<catalog, rw, ctx, call>>

\* The error unwinds out of the planner.
AbortPlanning ==
    /\ pc = "error"
    /\ env' = PlainEnv
    /\ parse' = IdleParse
    /\ plannerinfo' = IdleRoot
    /\ rels' = << >>
    /\ ctx' = IdleCtx
    /\ call' = IdleCall
    /\ pc' = "idle"
    /\ UNCHANGED <<catalog, rw>>

Next ==
    \/ Begin
    \/ Expand
    \/ ProcessQual
    \/ WalkNode
    \/ Resolve
    \/ Grow
    \/ AppendChild
    \/ Concat
    \/ EndPlanning
    \/ AbortPlanning

Spec == Init /\ [][Next]_vars

(***************************************************************************)
(* Properties of the rewrite.                                              *)
(***************************************************************************)
RwReturned == rw.pc = "returned"

BucketOf(op) == IF IsA(op.args[1], "FuncExpr") THEN op.args[1] ELSE op.args[2]
ValueOf(op) == IF IsA(op.args[2], "Const") THEN op.args[2] ELSE op.args[1]
ColumnOf(op) == BucketOf(op).args[2]
WidthOf(op) == BucketOf(op).args[1]
BucketOnLeft(op) == IsA(op.args[1], "FuncExpr")

\* The operator of the comparison read as `bucket OP value`.
MeantKind(op) ==
    IF BucketOnLeft(op) THEN oprkind(op.opno) ELSE Commute(oprkind(op.opno))

IntegerCase(op) == exprType(BucketOf(op)) = INT2OID
Rows == TypeRange(INT2OID)
\* The tuple of the rewrite's single relation whose column has value c.
Row(c) == <<c>>
LowerKinds == {BTGreaterEqualStrategyNumber, BTGreaterStrategyNumber}
UpperKinds == {BTLessStrategyNumber, BTLessEqualStrategyNumber}

\* v + w lies in the range of the column's type.
Representable(op) ==
    DatumGetInt32(ValueOf(op).constvalue) + DatumGetInt32(WidthOf(op).constvalue)
        \in TypeRange(exprType(BucketOf(op)))

\* equal() of two OpExprs: opfuncid may differ when one of them is unset.
equal(a, b) ==
    /\ a.opno = b.opno
    /\ a.opfuncid = b.opfuncid \/ a.opfuncid = InvalidOid \/ b.opfuncid = InvalidOid
    /\ a.opresulttype = b.opresulttype
    /\ a.args = b.args

\* The same comparison written with the time_bucket call on the left.
Mirror(op) == Comparison(MeantKind(op), BucketOf(op), ValueOf(op), TRUE, FALSE)

\* C1 as stated: on an integer column, the rows with bucket(w, c) > v (or >=)
\* are exactly the rows that satisfy the rewritten predicate c > v (or >=).
C1_RewrittenRowsIdentical ==
    (/\ RwReturned
     /\ IntegerCase(rw.op)
     /\ BucketOnLeft(rw.op)
     /\ IsA(ColumnOf(rw.op), "Var")
     /\ oprkind(rw.op.opno) \in LowerKinds)
        => \A c \in Rows :
              EvalExpr(BucketOf(rw.op), Row(c)).ok
                  => (Satisfies(rw.op, Row(c)) <=> Satisfies(rw.res.ret, Row(c)))

\* C1 amended: on an integer column, every row with bucket(w, c) > v (or >=)
\* satisfies the predicate returned for it, which is column > v (or >=) with
\* the operator commuted when the call was on the right; the rewritten
\* predicate may hold on more rows.
C1_LowerBoundKeepsRows ==
    (/\ RwReturned
     /\ IntegerCase(rw.op)
     /\ MeantKind(rw.op) \in LowerKinds)
        => /\ \A c \in Rows : Satisfies(rw.op, Row(c)) => Satisfies(rw.res.ret, Row(c))
           /\ (BucketOnLeft(rw.op) \/ catalog.commutator)
                 => /\ rw.res.ret.args = <<ColumnOf(rw.op), ValueOf(rw.op)>>
                    /\ oprkind(rw.res.ret.opno) = MeantKind(rw.op)

\* C1 witness: bucket(w, c) > v was rewritten to c > v, a row satisfies both
\* and another row satisfies only the rewritten predicate.
C1_Witness ==
    /\ RwReturned
    /\ IntegerCase(rw.op)
    /\ BucketOnLeft(rw.op)
    /\ IsA(ColumnOf(rw.op), "Var")
    /\ oprkind(rw.op.opno) = BTGreaterStrategyNumber
    /\ rw.res.ret.args = <<ColumnOf(rw.op), ValueOf(rw.op)>>
    /\ \E c \in Rows : Satisfies(rw.op, Row(c))
    /\ \E c \in Rows :
          EvalExpr(BucketOf(rw.op), Row(c)).ok /\ ~Satisfies(rw.op, Row(c)) /\ Satisfies(rw.res.ret, Row(c))

\* C2: on an integer column with v + w representable, every row with
\* bucket(w, c) < v (or <=) satisfies the returned predicate; when the rewrite
\* is made the returned predicate is column < v + w (or <=), and for the call
\* on the right it equals the one returned for the call on the left.
C2_UpperBoundKeepsRows ==
    (/\ RwReturned
     /\ IntegerCase(rw.op)
     /\ MeantKind(rw.op) \in UpperKinds
     /\ Representable(rw.op))
        => /\ ~rw.res.err
           /\ \A c \in Rows : Satisfies(rw.op, Row(c)) => Satisfies(rw.res.ret, Row(c))
           /\ rw.res.ret # rw.op
                 => /\ rw.res.ret.args[1] = ColumnOf(rw.op)
                    /\ oprkind(rw.res.ret.opno) = MeantKind(rw.op)
                    /\ EvalExpr(rw.res.ret.args[2], Row(0)) =
                          Value(DatumGetInt32(ValueOf(rw.op).constvalue)
                                    + DatumGetInt32(WidthOf(rw.op).constvalue))
           /\ (~BucketOnLeft(rw.op) /\ rw.res.ret # rw.op)
                 => equal(rw.res.ret,
                          transform_time_bucket_comparison("root", Mirror(rw.op)).ret)

\* C2 witness: v > bucket(w, c) with an int4 constant was rewritten, with
\* the cast of v + w, and a row satisfies it.
C2_Witness ==
    /\ RwReturned
    /\ IntegerCase(rw.op)
    /\ ~BucketOnLeft(rw.op)
    /\ oprkind(rw.op.opno) = BTGreaterStrategyNumber
    /\ Representable(rw.op)
    /\ rw.res.ret # rw.op
    /\ IsA(rw.res.ret.args[2], "FuncExpr")
    /\ \E c \in Rows : Satisfies(rw.op, Row(c))

CommutatorFails(op) ==
    ~BucketOnLeft(op) /\ ~OidIsValid(get_commutator(op.opno))

PlusFails(op) ==
    /\ MeantKind(op) \in UpperKinds
    /\ ~OidIsValid(get_operator("+", exprType(ValueOf(op)), exprType(WidthOf(op))))

CastFails(op) ==
    LET plus == get_operator("+", exprType(ValueOf(op)), exprType(WidthOf(op)))
    IN  /\ MeantKind(op) \in UpperKinds
        /\ OidIsValid(plus)
        /\ get_op_rettype(plus) # exprType(BucketOf(op))
        /\ ~OidIsValid(get_cast_func(get_op_rettype(plus), exprType(BucketOf(op))))

\* C6: when the commutator, the + operator or the cast function is not
\* found, the input is returned as it was passed, the input (its width
\* constant included) is not modified and no error is raised.
C6_FailedLookupReturnsInput ==
    (RwReturned /\ (CommutatorFails(rw.op) \/ PlusFails(rw.op) \/ CastFails(rw.op)))
        => /\ rw.res.ret = rw.op
           /\ rw.res.arg = rw.op
           /\ ~rw.res.err

\* C6 witness: the cast function is missing after the width, an interval
\* with a day component, went through the day merge.
C6_Witness ==
    /\ RwReturned
    /\ CastFails(rw.op)
    /\ ~CommutatorFails(rw.op)
    /\ exprType(BucketOf(rw.op)) = TIMESTAMPTZOID
    /\ DatumGetIntervalP(WidthOf(rw.op).constvalue).day # 0
    /\ rw.res.ret = rw.op

\* C7 as stated: the predicate returned never has the shape of a
\* time_bucket comparison.
C7_NeverBucketShapeAgain ==
    (RwReturned /\ ~rw.res.err) => ~is_time_bucket_comparison(rw.res.ret)

\* C7 amended: the returned predicate has the shape of a time_bucket
\* comparison exactly when the input was returned unchanged, or when the
\* column argument was itself a 2-argument time_bucket call and the right
\* operand of the rewritten predicate is a constant; a rewritten predicate
\* whose column is not a function call never has the shape.
C7_ShapeOnlyIfUnchangedOrNested ==
    (RwReturned /\ ~rw.res.err)
        => (is_time_bucket_comparison(rw.res.ret)
              <=> \/ rw.res.ret = rw.op
                  \/ /\ is_time_bucket_comparison(
                            [rw.op EXCEPT !.args = <<ColumnOf(rw.op), ValueOf(rw.op)>>])
                     /\ IsA(rw.res.ret.args[2], "Const"))

\* C7 witness: a rewrite to column < constant (the width folded into the
\* constant) of a plain column, which does not have the shape.
C7_Witness ==
    /\ RwReturned
    /\ ~rw.res.err
    /\ rw.res.ret # rw.op
    /\ IsA(ColumnOf(rw.op), "Var")
    /\ MeantKind(rw.op) \in UpperKinds
    /\ IsA(rw.res.ret.args[2], "Const")
    /\ ~is_time_bucket_comparison(rw.res.ret)

(***************************************************************************)
(* The rows a query returns.  A database gives each hypertable its rows    *)
(* (column values); a row of a join is [vals, nulls]: the column value of  *)
(* each relation and the relations an outer join filled with nulls.  A     *)
(* qual holds on a row when it evaluates to true: not when it refers to a  *)
(* null-filled relation.  chunks_in holds on the rows of the chunks named. *)
(***************************************************************************)
ChunkOf(h, v) == CHOOSE id \in ChunkIds(h) : v \in ChunkRange(id)

QualHolds(qual, t) ==
    /\ pull_varnos(qual) \cap t.nulls = {}
    /\ IF is_chunk_exclusion_func(qual)
       THEN \E i \in 1 .. Len(DatumGetArrayTypeP(qual.args[2].constvalue)) :
               DatumGetInt32(DatumGetArrayTypeP(qual.args[2].constvalue)[i].value)
                   = ChunkOf(qual.args[1].varno, t.vals[qual.args[1].varno])
       ELSE Satisfies(qual, t.vals)

Merge(a, b, brels) ==
    [vals |-> [r \in 1 .. 2 |-> IF r \in brels THEN b.vals[r] ELSE a.vals[r]],
     nulls |-> a.nulls \cup b.nulls]

NullExtend(a, others) == [vals |-> a.vals, nulls |-> a.nulls \cup others]

RECURSIVE JoinRows(_, _, _, _)
JoinRows(nodes, quals, db, ref) ==
    IF ref.rt # 0 THEN {[vals |-> RowOf(v), nulls |-> {}] : v \in db[ref.rt]}
    ELSE LET node == nodes[ref.node]
             holds(t) == \A i \in 1 .. Len(quals[ref.node]) :
                            QualHolds(quals[ref.node][i], t)
             L == JoinRows(nodes, quals, db, node.children[1])
             R == JoinRows(nodes, quals, db, node.children[2])
             lrels == RelsUnder(nodes, node.children[1])
             rrels == RelsUnder(nodes, node.children[2])
             matched == {t \in {Merge(a, b, rrels) : a \in L, b \in R} : holds(t)}
             leftonly == {NullExtend(a, rrels) :
                             a \in {x \in L : \A b \in R : ~holds(Merge(x, b, rrels))}}
             rightonly == {NullExtend(b, lrels) :
                              b \in {y \in R : \A a \in L : ~holds(Merge(a, y, rrels))}}
         IN  IF Len(node.children) = 1 THEN {t \in L : holds(t)}
             ELSE matched
                    \cup (IF node.jointype \in {"JOIN_LEFT", "JOIN_FULL"}
                          THEN leftonly ELSE {})
                    \cup (IF node.jointype \in {"JOIN_RIGHT", "JOIN_FULL"}
                          THEN rightonly ELSE {})

\* Each hypertable holds at most one row.
Databases == [1 .. 2 -> {{}} \cup {{v} : v \in Rows}]

QueryResult(db) == JoinRows(parse.jointree, call.before.quals, db, NodeRef(1))

Range(list) == {list[i] : i \in 1 .. Len(list)}

\* get_chunk_oids has returned the chunk list call.inh_oids.
ChunksResolved == pc = "grow"

\* C3: every predicate collected as a Restriction of the target relation
\* holds on every row of the target relation that the query returns, and
\* the resolved chunk list holds the chunk of every such row, whatever the
\* join types of the tree.
C3_RestrictionsHoldOnReturnedRows ==
    (ChunksResolved /\ ctx.chunk_exclusion_func = NULL) =>
        \A db \in Databases :
            \A t \in QueryResult(db) :
                ctx.rel \notin t.nulls =>
                    /\ \A i \in 1 .. Len(ctx.restrictions) :
                          Satisfies(ctx.restrictions[i].clause, t.vals)
                    /\ 100 + ChunkOf(ctx.rel, t.vals[ctx.rel]) \in Range(call.inh_oids)

\* The ids of the selector's array and the chunk tables they name.
SelectorIds(f) ==
    [i \in 1 .. Len(DatumGetArrayTypeP(f.args[2].constvalue)) |->
        DatumGetArrayTypeP(f.args[2].constvalue)[i]]

Offending(elem, h) ==
    \/ elem.isnull
    \/ ~ts_chunk_get_by_id(DatumGetInt32(elem.value)).found
    \/ ts_chunk_get_by_id(DatumGetInt32(elem.value)).fd.hypertable_id # h

Deduplicated(list) ==
    LET first(i) == \A j \in 1 .. i - 1 : list[j] # list[i]
        kept == {i \in 1 .. Len(list) : first(i)}
        nth(k) == CHOOSE i \in kept : Cardinality({j \in kept : j <= i}) = k
    IN  [k \in 1 .. Cardinality(kept) |-> list[nth(k)]]

DecodedOids(f) ==
    [i \in 1 .. Len(SelectorIds(f)) |->
        ts_chunk_get_by_id(DatumGetInt32(SelectorIds(f)[i].value)).table_id]

SelectorValid(f, h) ==
    /\ IsA(f.args[2], "Const")
    /\ \A i \in 1 .. Len(SelectorIds(f)) : ~Offending(SelectorIds(f)[i], h)

\* C4: with a chunks_in call for the target relation whose ids are all
\* valid, the chunk list get_chunk_oids returns is the deduplicated list of
\* the chunks of the array, in array order, whatever other predicates on the
\* relation stand before or after the call.
C4_ExplicitListIsDeduplicated ==
    (/\ ChunksResolved
     /\ ctx.chunk_exclusion_func # NULL
     /\ SelectorValid(ctx.chunk_exclusion_func, ctx.rel)) =>
        call.inh_oids = Deduplicated(DecodedOids(ctx.chunk_exclusion_func))

\* C5: with no Restriction collected and no chunks_in call, the chunk list
\* get_chunk_oids returns holds each chunk of the hypertable once, on the
\* ordered-append path and on the find_children_oids path.
C5_NoRestrictionGivesAllChunks ==
    (/\ ChunksResolved
     /\ ctx.chunk_exclusion_func = NULL
     /\ ctx.restrictions = << >>) =>
        /\ Range(call.inh_oids) = Range(find_inheritance_children(call.parent_oid))
        /\ Len(call.inh_oids) = NumChunks
        /\ ~should_order_append(env).result =>
              call.inh_oids = find_inheritance_children(call.parent_oid)

\* The ordered-append path was taken, in descending order.
C5_Witness ==
    /\ ChunksResolved
    /\ ctx.chunk_exclusion_func = NULL
    /\ ctx.restrictions = << >>
    /\ appends_ordered(rels[call.rti])
    /\ call.inh_oids = Reverse(find_inheritance_children(call.parent_oid))
    /\ call.inh_oids # find_inheritance_children(call.parent_oid)

\* An expansion is running (or has raised its error).
Expanding == pc \in {"walk", "resolve", "grow", "append", "error"}

\* The error get_explicit_chunk_oids raises for an offending element.
OffenceOf(elem) ==
    IF elem.isnull THEN Error("chunk id can't be NULL", 0)
    ELSE IF ~ts_chunk_get_by_id(DatumGetInt32(elem.value)).found
    THEN Error("chunk id %d not found", DatumGetInt32(elem.value))
    ELSE Error("chunk id %d does not belong to hypertable \"%s\"", DatumGetInt32(elem.value))

FirstOffending(f, h) ==
    CHOOSE i \in 1 .. Len(SelectorIds(f)) :
        /\ Offending(SelectorIds(f)[i], h)
        /\ \A j \in 1 .. i - 1 : ~Offending(SelectorIds(f)[j], h)

\* Nothing of the expansion has been added to the planning structures.
NothingExpanded ==
    /\ parse.rtable = call.before.rtable
    /\ plannerinfo = call.before.plannerinfo
    /\ call.appinfos = << >>
    /\ call.inh_oids = << >>
    /\ rels[call.rti].nparts = 0

\* C8: when the array of the recorded chunks_in call holds an id that is
\* null, unknown or of another hypertable, the expansion never gets past
\* get_chunk_oids: it ends in the error of the first offending element (the
\* error names its id), with no child range-table entry appended, the
\* relation arrays not grown and no append entry added.
C8_InvalidIdFailsBeforeExpansion ==
    (/\ Expanding
     /\ ctx.chunk_exclusion_func # NULL
     /\ IsA(ctx.chunk_exclusion_func.args[2], "Const")
     /\ ~SelectorValid(ctx.chunk_exclusion_func, ctx.rel)) =>
        /\ pc \in {"resolve", "error"}
        /\ NothingExpanded
        /\ pc = "error" =>
              call.error =
                  OffenceOf(SelectorIds(ctx.chunk_exclusion_func)[
                      FirstOffending(ctx.chunk_exclusion_func, ctx.rel)])

\* chunks_in(t1, ARRAY[1, 7]): chunk 1 is valid, chunk 7 is of hypertable 2.
C8_Witness ==
    /\ pc = "error"
    /\ ctx.chunk_exclusion_func = ChunksIn(WholeRow(1), Int4Array(<<Elem(1), Elem(7)>>))
    /\ call.error.chunk_id = 7
    /\ NothingExpanded

\* What a collected qual becomes in the restriction list.
Collected(qual) ==
    IF is_time_bucket_comparison(qual)
    THEN transform_time_bucket_comparison("root", qual).ret
    ELSE qual

NotOfTarget(qual) == pull_varnos(qual) # {ctx.rel}

\* C9: during the walk and after it, every Restriction of the context was
\* made from a qual of the tree whose relations are exactly the target
\* relation, and the quals of no relation, of another relation or of more
\* than one relation are all still in the tree, in their order.
C9_RestrictionsOnlyOfTarget ==
    Expanding =>
        /\ \A i \in 1 .. Len(ctx.restrictions) :
              /\ ctx.restrictions[i].required_relids = {ctx.rel}
              /\ ctx.restrictions[i].clause_relids = {ctx.rel}
              /\ \E n \in 1 .. Len(call.before.quals) :
                    \E j \in 1 .. Len(call.before.quals[n]) :
                        /\ pull_varnos(call.before.quals[n][j]) = {ctx.rel}
                        /\ ctx.restrictions[i].clause = Collected(call.before.quals[n][j])
        /\ \A n \in 1 .. Len(parse.quals) :
              SelectSeq(parse.quals[n], NotOfTarget)
                  = SelectSeq(call.before.quals[n], NotOfTarget)

\* The walk has passed a qual of two relations and collected a qual of the
\* target relation after it.
C9_Witness ==
    /\ pc = "walk"
    /\ call.lc = 3
    /\ Cardinality(pull_varnos(parse.quals[call.node][1])) = 2
    /\ Len(ctx.restrictions) = 1

\* A chunks_in call whose only relation is the target relation.
IsTargetSelector(qual) == is_chunk_exclusion_func(qual) /\ pull_varnos(qual) = {ctx.rel}

\* C10: once the walk has met a chunks_in call for the target relation, the
\* walk is over, the call is recorded, the restriction list is empty, and
\* the tree is the tree before the walk without that one conjunct; a walk
\* that ends without a recorded call has met none.
C10_SelectorEndsWalk ==
    /\ (Expanding /\ ctx.chunk_exclusion_func # NULL) =>
          /\ pc # "walk"
          /\ ctx.restrictions = << >>
          /\ call.lc <= Len(call.before.quals[call.node])
          /\ ctx.chunk_exclusion_func = call.before.quals[call.node][call.lc]
          /\ IsTargetSelector(ctx.chunk_exclusion_func)
          /\ parse.quals = [call.before.quals EXCEPT
                               ![call.node] = list_delete_cell(@, call.lc)]
    /\ (pc \in {"resolve", "grow", "append"} /\ ctx.chunk_exclusion_func = NULL) =>
          /\ \A n \in 1 .. Len(call.before.quals) :
                \A j \in 1 .. Len(call.before.quals[n]) :
                    ~IsTargetSelector(call.before.quals[n][j])
          /\ parse.quals = call.before.quals

\* A bucket comparison of the target relation stood before the call: it was
\* collected, then discarded, and is still in the tree.
C10_Witness ==
    /\ pc = "resolve"
    /\ ctx.chunk_exclusion_func # NULL
    /\ call.lc = 2
    /\ Len(parse.quals[call.node]) = 1
    /\ is_time_bucket_comparison(parse.quals[call.node][1])
    /\ pull_varnos(parse.quals[call.node][1]) = {ctx.rel}

\* Everything ordered append asks for: no chunks_in call, optimizations not
\* disabled, ordered append enabled, one dimension, an ORDER BY and a LIMIT,
\* and an ordering compatible with the dimension.
OrderedAppendEligible ==
    /\ ctx.chunk_exclusion_func = NULL
    /\ ~env.ts_guc_disable_optimizations
    /\ env.ts_guc_enable_ordered_append
    /\ env.num_dimensions = 1
    /\ env.sortClause
    /\ env.limit_tuples # -1
    /\ env.order_compatible

\* The chunks range exclusion gives in the order the query asks for.
OrderedChunks ==
    ts_hypertable_restrict_info_get_chunk_oids_ordered(
        ts_hypertable_restrict_info_add(ctx.restrictions),
        Hypertable(call.rti), env.reverse)

\* C11 as stated: the relation is flagged as order-preserving exactly when
\* ordered append is eligible.
C11_FlaggedExactlyWhenEligible ==
    ChunksResolved => (appends_ordered(rels[call.rti]) <=> OrderedAppendEligible)

\* C11 amended: the chunks are fetched pre-sorted exactly when ordered append
\* is eligible; the relation is flagged exactly when it is eligible and the
\* relation has a TimescaleDBPrivate (fdw_private is not NULL); a flagged
\* relation has its chunks in the order asked for, and a relation whose
\* expansion has not resolved its chunks is not flagged.
C11_FlaggedOnlyWithOrderedChunks ==
    /\ ChunksResolved =>
          /\ OrderedAppendEligible => call.inh_oids = OrderedChunks
          /\ (~OrderedAppendEligible /\ ctx.chunk_exclusion_func = NULL) =>
                call.inh_oids =
                    find_children_oids(ts_hypertable_restrict_info_add(ctx.restrictions),
                                       Hypertable(call.rti))
          /\ appends_ordered(rels[call.rti])
                <=> (OrderedAppendEligible /\ rels[call.rti].fdw_private # NULL)
          /\ appends_ordered(rels[call.rti]) => call.inh_oids = OrderedChunks
    /\ \A rti \in DOMAIN rels :
          appends_ordered(rels[rti]) =>
              /\ parse.rtable[rti].inh
              /\ ~(Expanding /\ call.rti = rti /\ pc \in {"walk", "resolve", "error"})

\* A flagged relation with a restriction collected, whose chunks are in
\* descending order.
C11_Witness ==
    /\ ChunksResolved
    /\ OrderedAppendEligible
    /\ appends_ordered(rels[call.rti])
    /\ env.reverse
    /\ Len(ctx.restrictions) = 1
    /\ Len(call.inh_oids) >= 2
    /\ call.inh_oids = OrderedChunks
    /\ call.inh_oids # find_children_oids(
                           ts_hypertable_restrict_info_add(ctx.restrictions),
                           Hypertable(call.rti))

\* The append entries of the planning pass: those of append_rel_list and,
\* after them, those of the running call.
AppendEntries ==
    plannerinfo.append_rel_list \o (IF pc = "append" THEN call.appinfos ELSE << >>)

\* The range table had NumRels entries when planning began.
NumRels == Len(rels)

\* One child range-table entry and one append entry for each chunk added, the
\* child index being the position of the entry; the arrays hold every index.
StructuresConsistent ==
    pc # "idle" =>
        /\ Len(parse.rtable) = NumRels + Len(AppendEntries)
        /\ plannerinfo.simple_rel_array_size =
              NumRels + 1 + Len(plannerinfo.append_rel_list)
                  + (IF pc = "append" THEN Len(call.inh_oids) ELSE 0)
        /\ \A i \in 1 .. Len(AppendEntries) :
              /\ AppendEntries[i].child_relid = NumRels + i
              /\ AppendEntries[i].child_relid < plannerinfo.simple_rel_array_size
              /\ AppendEntries[i].parent_relid \in 1 .. NumRels
              /\ parse.rtable[AppendEntries[i].parent_relid].inh
              /\ AppendEntries[i].parent_reloid
                    = parse.rtable[AppendEntries[i].parent_relid].relid
              /\ ~parse.rtable[NumRels + i].inh
        /\ \A i \in 1 .. Len(AppendEntries) : \A j \in 1 .. Len(AppendEntries) :
              i # j => AppendEntries[i].child_relid # AppendEntries[j].child_relid
        /\ \A rti \in 1 .. NumRels :
              (parse.rtable[rti].inh /\ ~(Expanding /\ call.rti = rti)) =>
                  Cardinality({i \in 1 .. Len(plannerinfo.append_rel_list) :
                                  plannerinfo.append_rel_list[i].parent_relid = rti})
                      = rels[rti].nparts

\* The running call has added the first l - 1 chunks of its list, in the
\* order of the list, after everything that was there when it began.
CallConsistent ==
    pc = "append" =>
        /\ Len(call.appinfos) = call.l - 1
        /\ call.l <= Len(call.inh_oids) + 1
        /\ plannerinfo.append_rel_list = call.before.plannerinfo.append_rel_list
        /\ plannerinfo.simple_rel_array_size =
              call.before.plannerinfo.simple_rel_array_size + Len(call.inh_oids)
        /\ SubSeq(parse.rtable, 1, Len(call.before.rtable)) = call.before.rtable
        /\ \A k \in 1 .. Len(call.appinfos) :
              /\ call.appinfos[k].parent_relid = call.rti
              /\ call.appinfos[k].child_relid = Len(call.before.rtable) + k
              /\ parse.rtable[call.appinfos[k].child_relid].relid = call.inh_oids[k]

\* A step of the planning pass keeps the entries that are there: the child
\* range-table entries, the append entries and the relation of every entry;
\* the call returns with its entries added at the end of append_rel_list.
EntriesKept ==
    (pc # "idle" /\ pc' \notin {"idle", "error"}) =>
        /\ Len(parse'.rtable) >= Len(parse.rtable)
        /\ \A i \in 1 .. Len(parse.rtable) :
              /\ parse'.rtable[i].relid = parse.rtable[i].relid
              /\ i > NumRels => parse'.rtable[i] = parse.rtable[i]
        /\ Len(plannerinfo'.append_rel_list) >= Len(plannerinfo.append_rel_list)
        /\ SubSeq(plannerinfo'.append_rel_list, 1, Len(plannerinfo.append_rel_list))
              = plannerinfo.append_rel_list
        /\ plannerinfo'.simple_rel_array_size >= plannerinfo.simple_rel_array_size
        /\ (pc = "append" /\ pc' = "planning") =>
              /\ plannerinfo'.append_rel_list
                    = plannerinfo.append_rel_list \o call.appinfos
              /\ Len(call.appinfos) = Len(call.inh_oids)
              /\ parse' = parse

\* C12: through every planning pass the planning structures are consistent:
\* each call adds one child range-table entry and one append entry for each
\* chunk of its list, in the order of the list, with the expanded relation
\* as parent and the position of the new range-table entry as child index;
\* the child indexes are distinct and below simple_rel_array_size, which
\* grows by the number of chunks; the entries of earlier calls are kept.
C12_PlanningStructuresConsistent ==
    /\ [](StructuresConsistent /\ CallConsistent)
    /\ [][EntriesKept]_vars

\* Two hypertables were expanded, the second of the range table first, and
\* append_rel_list holds the chunks of both.
C12_Witness ==
    /\ pc = "planning"
    /\ NumRels = 2
    /\ \A rti \in 1 .. NumRels : parse.rtable[rti].inh /\ rels[rti].nparts >= 1
    /\ plannerinfo.append_rel_list[1].parent_relid = 2
    /\ plannerinfo.append_rel_list[Len(plannerinfo.append_rel_list)].parent_relid = 1
    /\ plannerinfo.simple_rel_array_size = Len(parse.rtable) + 1

====
